---- MODULE Spec2Model ----
(***************************************************************************)
(* Compile-time method detection of mlpack's sfinae_utility.hpp.           *)
(*                                                                         *)
(* The header is evaluated by the C++ compiler: a detector generated by   *)
(* HAS_METHOD_FORM or HAS_MEM_FUNC is a class template whose static        *)
(* member `value` is computed by template instantiation.  The model's     *)
(* state is the class and the method form under test together with the    *)
(* instantiations the compiler has performed so far; one action is one    *)
(* template instantiation.                                                 *)
(*                                                                         *)
(* Scope of the modelled classes: the members named METHOD are non-static, *)
(* non-template member functions declared by the class itself.             *)
(***************************************************************************)
EXTENDS Naturals, Sequences, FiniteSets

VARIABLES
  cls,     \* the class under test: the set of its member functions
  form,    \* the MethodForm alias template handed to the detectors
  args,    \* per HAS_METHOD_FORM detector: the template arguments it was named with
  pc,      \* per detector: "idle", "mismatch", "search", "done", "error"
  level,   \* per detector: N of WithGreaterOrEqualNumberOfAdditionalArgs<N>
  probed,  \* per detector: the N of every WithNAdditionalArgs<N> instantiated
  result,  \* per detector: NAME<...>::value, "none" until it is known
  mem,     \* the HAS_MEM_FUNC instantiation made, if any
  arity    \* the direct WithNAdditionalArgs<N> instantiation made, if any

vars == <<cls, form, args, pc, level, probed, result, mem, arity>>

(***************************************************************************)
(* Bounds of the universe of classes.                                      *)
(***************************************************************************)
\* Longest parameter list of a member function: one prefix parameter plus
\* one trailing parameter more than the detecters support.
MaxParams == 9

Types == {"int", "double"}
Rets == {"void", "int"}
Names == {"f", "g"}

IntList(n) == [i \in 1..n |-> "int"]

\* Parameter lists: all int, or all int but the last.
ParamLists ==
  {IntList(n) : n \in 0..MaxParams}
    \cup {[IntList(n) EXCEPT ![n] = "double"] : n \in 1..MaxParams}

\* How far a member function is from `void f(int, ..., int)`.
Deviations(m) ==
  (IF m.name = "f" THEN 0 ELSE 1) + (IF m.ret = "void" THEN 0 ELSE 1)
    + (IF m.const THEN 1 ELSE 0)
    + (IF m.params = IntList(Len(m.params)) THEN 0 ELSE 1)

\* The member functions a class is built from.
Pool ==
  {m \in [name : Names, ret : Rets, const : BOOLEAN, params : ParamLists] :
     Deviations(m) <= 1}

\* C++ forbids two overloads that differ in the return type only.
WellFormedClass(c) ==
  \A m1, m2 \in c :
    (m1.name = m2.name /\ m1.params = m2.params /\ m1.const = m2.const)
      => m1 = m2

\* Classes with no, one or two member functions.
Classes == {c \in {{m1, m2} : m1, m2 \in Pool} \cup {{}} : WellFormedClass(c)}

\* Forms: `Ret (Class::*)(Prefix..., Ts...) [const]`.
Forms == [ret : {"void"}, const : BOOLEAN, prefix : {<<>>, <<"int">>}]

(***************************************************************************)
(* Member pointers.                                                        *)
(***************************************************************************)
\* The type of a pointer to the member function m of the class.
PtrType(m) == [ret |-> m.ret, const |-> m.const, params |-> m.params]

\* MethodForm<Class, Ts...>: the alias template instantiated.
MethodForm(fm, Ts) ==
  [ret |-> fm.ret, const |-> fm.const, params |-> fm.prefix \o Ts]

\* The overload set &Class::METHOD names.
Members(c, method) == {m \in c : m.name = method}

SubstFailure == "substitution failure"

(***************************************************************************)
(* namespace mlpack::sfinae                                                *)
(***************************************************************************)
MaxMFDAdditionalArgsCount == 7

\* Variant: a member with more parameters than the form at N is accepted.
DeductionSucceeds_AtLeastN(fm, N, m) ==
  /\ m.ret = fm.ret
  /\ m.const = fm.const
  /\ Len(m.params) >= Len(fm.prefix) + N
  /\ SubSeq(m.params, 1, Len(fm.prefix)) = fm.prefix

\* Deduction of T1..TN of `operator()(MethodForm<Class, T1..TN>)` from one
\* member of the overload set: the types have to agree outside T1..TN.
DeductionSucceeds(fm, N, m) ==
  /\ m.ret = fm.ret
  /\ m.const = fm.const
  /\ Len(m.params) = Len(fm.prefix) + N
  /\ SubSeq(m.params, 1, Len(fm.prefix)) = fm.prefix

\* Variant: the const qualifier of the member is not compared.
DetecterZero_IgnoresConst(c, fm, method) ==
  IF \E m \in Members(c, method) :
       [PtrType(m) EXCEPT !.const = fm.const] = MethodForm(fm, <<>>)
    THEN "void" ELSE SubstFailure

\* MethodFormDetecter<Class, MethodForm, 0>: operator() is no template, the
\* overload set is resolved against the parameter type MethodForm<Class>.
DetecterZero(c, fm, method) ==
  IF \E m \in Members(c, method) : PtrType(m) = MethodForm(fm, <<>>)
    THEN "void" ELSE SubstFailure

\* Variant: any overload of the form is enough.
DetecterTemplate_AnyOverload(c, fm, method, N) ==
  IF \E m \in {x \in c : x.name = method} :
       /\ m.ret = fm.ret /\ m.const = fm.const
       /\ Len(m.params) = Len(fm.prefix) + N
       /\ SubSeq(m.params, 1, Len(fm.prefix)) = fm.prefix
    THEN "void" ELSE SubstFailure

\* MethodFormDetecter<Class, MethodForm, N>, N in 1..7: operator() is a
\* template; deduction is tried on every member of the overload set and
\* has to succeed for exactly one of them.
DetecterTemplate(c, fm, method, N) ==
  IF Cardinality({m \in Members(c, method) : DeductionSucceeds(fm, N, m)}) = 1
    THEN "void" ELSE SubstFailure

\* decltype(MethodFormDetecter<C, MF, N>()(&C::METHOD)); the primary
\* template is declared only, so there is nothing to call beyond 7.
MethodFormDetecter(c, fm, method, N) ==
  IF N = 0 THEN DetecterZero(c, fm, method)
  ELSE IF N <= MaxMFDAdditionalArgsCount THEN DetecterTemplate(c, fm, method, N)
  ELSE SubstFailure

\* True<T>::value
True(T) == TRUE

\* EnableIfCompilable<T, ResultType>
EnableIfCompilable(T, ResultType) ==
  IF T # SubstFailure /\ True(T) THEN ResultType ELSE SubstFailure

(***************************************************************************)
(* The yes/no idiom both macros use.                                       *)
(***************************************************************************)
\* sizeof(char[1]) and sizeof(char[2])
Sizeof(t) == IF t = "yes" THEN 1 ELSE 2

\* Variant: the catch-all overload chk(...) is missing.
ChkCandidates_NoCatchAll(ret) ==
  IF ret # SubstFailure THEN {[rank |-> 1, ret |-> ret]} ELSE {}

\* The overloads of chk that survive substitution: the checked one, whose
\* return type is `ret`, and the catch-all chk(...).
ChkCandidates(ret) ==
  (IF ret # SubstFailure THEN {[rank |-> 1, ret |-> ret]} ELSE {})
    \cup {[rank |-> 2, ret |-> "no"]}

\* `sizeof(chk<Class>(0)) == sizeof(yes)`: the best viable overload is the
\* one of lowest rank (an ellipsis conversion is the worst); with no viable
\* overload the call is a hard error.
ChkValue(cands) ==
  IF cands = {} THEN "error"
  ELSE LET best == CHOOSE x \in cands : \A y \in cands : x.rank <= y.rank
       IN IF Sizeof(best.ret) = Sizeof("yes") THEN "true" ELSE "false"

(***************************************************************************)
(* HAS_MEM_FUNC(FUNC, NAME)                                                *)
(***************************************************************************)
\* Variant: the return type of the member is not compared.
type_check_IgnoresReturnType(c, func, sig) ==
  IF \E m \in {x \in c : x.name = func} :
       m.params = sig.params /\ m.const = sig.const
    THEN "yes" ELSE SubstFailure

\* type_check<sig, &_1::FUNC>: the overload set is resolved against sig.
type_check(c, func, sig) ==
  IF \E m \in Members(c, func) : PtrType(m) = sig THEN "yes" ELSE SubstFailure

\* NAME<T, sig>::value
HAS_MEM_FUNC(c, func, sig) == ChkValue(ChkCandidates(type_check(c, func, sig)))

(***************************************************************************)
(* HAS_METHOD_FORM(METHOD, NAME)                                           *)
(***************************************************************************)
\* NAME<Class, MethodForm>::WithNAdditionalArgs<N>::value
WithNAdditionalArgs(c, fm, method, N) ==
  ChkValue(ChkCandidates(
    EnableIfCompilable(MethodFormDetecter(c, fm, method, N), "yes")))

\* Variant: the recursion stops one arity early.
RecursionGuard_StopsOneEarly(N) == N + 1 < MaxMFDAdditionalArgsCount

\* Variant: the recursion goes one arity too far.
RecursionGuard_Inclusive(N) == N <= MaxMFDAdditionalArgsCount

\* The condition of the inner std::conditional.
RecursionGuard(N) == N < MaxMFDAdditionalArgsCount

\* Variant: the next level is instantiated whatever WithNAdditionalArgs<N> is.
SearchType_NoShortCircuit(N, v) ==
  IF N < MaxMFDAdditionalArgsCount THEN [kind |-> "recurse", n |-> N + 1]
  ELSE IF v = "true" THEN [kind |-> "true_type", n |-> N]
  ELSE [kind |-> "false_type", n |-> N]

\* WithGreaterOrEqualNumberOfAdditionalArgs<N>::type, given the value v of
\* WithNAdditionalArgs<N>.
SearchType(N, v) ==
  IF v = "true" THEN [kind |-> "true_type", n |-> N]
  ELSE IF RecursionGuard(N) THEN [kind |-> "recurse", n |-> N + 1]
  ELSE [kind |-> "false_type", n |-> N]

\* The template parameter list of NAME: a type, then a template.
TemplateParams == <<"type", "template">>

\* The two detectors of the translation unit and the method each looks for.
Detectors == {"HasF", "HasG"}

\* Variant: both detectors look for the same method.
MethodOf_SameMethod(d) == "f"

MethodOf(d) == IF d = "HasF" THEN "f" ELSE "g"

\* The template arguments of a query in both orders.
ClassThenForm == <<"type", "template">>
FormThenClass == <<"template", "type">>

NoMem == [queried |-> FALSE, sig |-> MethodForm([ret |-> "void", const |-> FALSE, prefix |-> <<>>], <<>>), value |-> "none"]
NoArity == [queried |-> FALSE, n |-> 0, value |-> "none"]

Init ==
  /\ cls \in Classes
  /\ form \in Forms
  /\ args = [d \in Detectors |-> <<>>]
  /\ pc = [d \in Detectors |-> "idle"]
  /\ level = [d \in Detectors |-> 0]
  /\ probed = [d \in Detectors |-> <<>>]
  /\ result = [d \in Detectors |-> "none"]
  /\ mem = NoMem
  /\ arity = NoArity

\* The compiler instantiates one thing at a time.
Busy == \E e \in Detectors : pc[e] = "search"

\* Whether a template argument list fits the template parameter list.
ArgumentsMatch(as) == as = TemplateParams

\* NAME<as>::value is named for the first time: the arguments are matched
\* against the template parameters (a mismatch is a compile error), and
\* the search starts at N = 0.
Instantiate(d, as) ==
  /\ pc[d] = "idle"
  /\ ~Busy
  /\ args' = [args EXCEPT ![d] = as]
  /\ pc' = [pc EXCEPT ![d] = IF ArgumentsMatch(as) THEN "search" ELSE "mismatch"]
  /\ UNCHANGED <<cls, form, level, probed, result, mem, arity>>

\* WithGreaterOrEqualNumberOfAdditionalArgs<level> is instantiated: it
\* instantiates WithNAdditionalArgs<level> and selects its `type`.
InstantiateLevel(d) ==
  /\ pc[d] = "search"
  /\ LET N == level[d]
         v == WithNAdditionalArgs(cls, form, MethodOf(d), N)
         t == SearchType(N, v)
     IN /\ probed' = [probed EXCEPT ![d] = Append(@, N)]
        /\ IF v = "error"
             THEN /\ pc' = [pc EXCEPT ![d] = "error"]
                  /\ UNCHANGED <<level, result>>
           ELSE IF t.kind = "recurse"
             THEN /\ level' = [level EXCEPT ![d] = t.n]
                  /\ UNCHANGED <<pc, result>>
           ELSE /\ pc' = [pc EXCEPT ![d] = "done"]
                /\ result' = [result EXCEPT ![d] =
                                IF t.kind = "true_type" THEN "true" ELSE "false"]
                /\ UNCHANGED level
  /\ UNCHANGED <<cls, form, args, mem, arity>>

Next ==
  \/ \E d \in Detectors, as \in {ClassThenForm, FormThenClass} :
       Instantiate(d, as)
  \/ \E d \in Detectors : InstantiateLevel(d)

\* A translation unit that asks the HAS_METHOD_FORM detectors for `value`.
Spec == Init /\ [][Next]_vars

\* The compiler does not stop in the middle of an instantiation.
FairSpec == Spec /\ WF_vars(\E d \in Detectors : InstantiateLevel(d))

\* The signatures HAS_MEM_FUNC is asked about.
Sigs == {PtrType(m) : m \in Pool}

\* HasFSig<Class, sig>::value of HAS_MEM_FUNC(f, HasFSig) is instantiated.
InstantiateMemFunc(sig) ==
  /\ ~mem.queried
  /\ mem' = [queried |-> TRUE, sig |-> sig, value |-> HAS_MEM_FUNC(cls, "f", sig)]
  /\ UNCHANGED <<cls, form, args, pc, level, probed, result, arity>>

\* HasF<Class, MethodForm>::WithNAdditionalArgs<N>::value is instantiated
\* on its own, outside the search.
InstantiateWithN(N) ==
  /\ ~arity.queried
  /\ arity' = [queried |-> TRUE, n |-> N,
               value |-> WithNAdditionalArgs(cls, form, "f", N)]
  /\ UNCHANGED <<cls, form, args, pc, level, probed, result, mem>>

NextFixed ==
  \/ \E sig \in Sigs : InstantiateMemFunc(sig)
  \/ \E N \in 0..MaxMFDAdditionalArgsCount : InstantiateWithN(N)

\* A translation unit that asks the fixed-signature detector and one
\* fixed-arity check.
SpecFixed == Init /\ [][NextFixed]_vars

(***************************************************************************)
(* Vocabulary of the properties.                                           *)
(***************************************************************************)
\* The trailing parameter types of m, after the prefix of the form.
TrailingTypes(m, fm) == SubSeq(m.params, Len(fm.prefix) + 1, Len(m.params))

\* m takes N parameters after as many as the prefix of the form has.
HasTrailingCount(m, fm, N) == Len(m.params) = Len(fm.prefix) + N

\* m is a method of the requested form with N additional arguments: its
\* member pointer type is MethodForm<Class, T1..TN> for some T1..TN.
OfRequestedForm(m, fm, N) ==
  /\ HasTrailingCount(m, fm, N)
  /\ PtrType(m) = MethodForm(fm, TrailingTypes(m, fm))

\* The class has one method of that name, of the requested form at arity k.
OnlyMethodAtArity(c, fm, method, k) ==
  \E m \in c : Members(c, method) = {m} /\ OfRequestedForm(m, fm, k)

\* The fixed-arity check is true for some N in 0..7.
SomeArityMatches(c, fm, method) ==
  \E N \in 0..MaxMFDAdditionalArgsCount :
    WithNAdditionalArgs(c, fm, method, N) = "true"

F(ret, const, params) ==
  [name |-> "f", ret |-> ret, const |-> const, params |-> params]

PlainForm == [ret |-> "void", const |-> FALSE, prefix |-> <<>>]

(***************************************************************************)
(* C1: the value of a HAS_METHOD_FORM detector is true if and only if the  *)
(* fixed-arity check is true for at least one N in 0..7; a method that     *)
(* matches at arity 7 only gives true, one that needs 8 trailing arguments *)
(* gives false.                                                            *)
(***************************************************************************)
C1_ValueIffSomeArityUpTo7 ==
  \A d \in Detectors :
    pc[d] = "done" =>
      /\ result[d] = "true" <=> SomeArityMatches(cls, form, MethodOf(d))
      /\ OnlyMethodAtArity(cls, form, MethodOf(d), MaxMFDAdditionalArgsCount)
           => result[d] = "true"
      /\ OnlyMethodAtArity(cls, form, MethodOf(d), MaxMFDAdditionalArgsCount + 1)
           => result[d] = "false"

C1_Witness ==
  /\ pc["HasF"] = "done" /\ pc["HasG"] = "done"
  /\ OnlyMethodAtArity(cls, form, "f", MaxMFDAdditionalArgsCount)
  /\ OnlyMethodAtArity(cls, form, "g", MaxMFDAdditionalArgsCount + 1)
  /\ result["HasF"] = "true" /\ result["HasG"] = "false"

(***************************************************************************)
(* C2: every probe ends in a definite boolean and never in a hard error:   *)
(* for every N in 0..7 an ill-formed probe call gives                      *)
(* WithNAdditionalArgs<N>::value = false, and for a class with no member   *)
(* named METHOD the search over 0..7 resolves to false.                    *)
(***************************************************************************)
C2_IllFormedProbeIsFalse ==
  \A d \in Detectors :
    /\ pc[d] # "error"
    /\ \A N \in 0..MaxMFDAdditionalArgsCount :
         /\ WithNAdditionalArgs(cls, form, MethodOf(d), N) \in {"true", "false"}
         /\ MethodFormDetecter(cls, form, MethodOf(d), N) = SubstFailure
              => WithNAdditionalArgs(cls, form, MethodOf(d), N) = "false"
    /\ (pc[d] = "done" /\ Members(cls, MethodOf(d)) = {})
         => result[d] = "false"

C2_Witness ==
  /\ Members(cls, "f") = {}
  /\ pc["HasF"] = "done"
  /\ result["HasF"] = "false"
  /\ Len(probed["HasF"]) = MaxMFDAdditionalArgsCount + 1

(***************************************************************************)
(* C3: the fixed-arity check at N succeeds only if the class has exactly   *)
(* one method of the requested form with N additional arguments; with no   *)
(* such method, or with two or more overloads of the form at the same N,   *)
(* it is false.                                                            *)
(***************************************************************************)
C3_SucceedsOnlyForExactlyOne ==
  arity.queried =>
    LET matching == {m \in Members(cls, "f") : OfRequestedForm(m, form, arity.n)}
    IN /\ arity.value = "true" => Cardinality(matching) = 1
       /\ Cardinality(matching) # 1 => arity.value = "false"

C3_Witness ==
  /\ arity.queried
  /\ Cardinality({m \in Members(cls, "f") : OfRequestedForm(m, form, arity.n)}) = 2
  /\ arity.value = "false"

(***************************************************************************)
(* C4: for a class whose single method of the probed name is of the form   *)
(* with exactly k trailing parameters, 0 <= k <= 7, the fixed-arity check  *)
(* at N is true exactly when N = k.                                        *)
(***************************************************************************)
C4_TrueExactlyAtOwnArity ==
  \A k \in 0..MaxMFDAdditionalArgsCount :
    (arity.queried /\ OnlyMethodAtArity(cls, form, "f", k))
      => (arity.value = "true" <=> arity.n = k)

\* f(int) and the form (Class, T1): true at arity 1.
C4_Witness ==
  /\ arity.queried
  /\ cls = {F("void", FALSE, <<"int">>)}
  /\ form = PlainForm
  /\ arity.n = 1
  /\ arity.value = "true"

(***************************************************************************)
(* C5: the HAS_MEM_FUNC detector is true only when the class has a member  *)
(* FUNC whose member pointer type is exactly sig; it is false when the     *)
(* class has no member FUNC, and when its members FUNC have another        *)
(* signature (return type, parameter count).                               *)
(***************************************************************************)
C5_TrueOnlyForExactSignature ==
  mem.queried =>
    /\ mem.value = "true" => \E m \in Members(cls, "f") : PtrType(m) = mem.sig
    /\ Members(cls, "f") = {} => mem.value = "false"
    /\ (\A m \in Members(cls, "f") : PtrType(m) # mem.sig) => mem.value = "false"

\* A member of the same name and parameters with another return type.
C5_Witness ==
  /\ mem.queried
  /\ \E m \in Members(cls, "f") :
       /\ Members(cls, "f") = {m}
       /\ m.params = mem.sig.params /\ m.const = mem.sig.const
       /\ m.ret # mem.sig.ret
  /\ mem.value = "false"

(***************************************************************************)
(* C6: a detector generated by HAS_METHOD_FORM is queried as               *)
(* NAME<Shape, Class>::value, the method shape first and the class second, *)
(* and that query is a well-formed instantiation that yields the detection *)
(* result.                                                                 *)
(***************************************************************************)
C6_ShapeFirstQueryIsWellFormed ==
  \A d \in Detectors :
    args[d] = FormThenClass =>
      /\ pc[d] \in {"search", "done"}
      /\ pc[d] = "done" =>
           (result[d] = "true" <=> SomeArityMatches(cls, form, MethodOf(d)))

(***************************************************************************)
(* C7: two detectors generated for two different method names do not       *)
(* interfere: for a class that implements only one of the two methods the  *)
(* detector of that method is true and the other false, the value of a     *)
(* detector depends on the members of its own method name only, and no     *)
(* step of one detector changes anything of the other.                     *)
(***************************************************************************)
Other(d) == IF d = "HasF" THEN "HasG" ELSE "HasF"

\* HAS_METHOD_FORM(f, HasF) and HAS_METHOD_FORM(g, HasG)
C7_Generated == [HasF |-> "f", HasG |-> "g"]

C7_ValuesAreIndependent ==
  \A d \in Detectors :
    pc[d] = "done" =>
      /\ result[d] = "true"
           <=> SomeArityMatches(Members(cls, C7_Generated[d]), form, C7_Generated[d])
      /\ (/\ \E m \in Members(cls, C7_Generated[d]) :
                \E N \in 0..MaxMFDAdditionalArgsCount :
                  /\ OfRequestedForm(m, form, N)
                  /\ \A x \in Members(cls, C7_Generated[d]) :
                       HasTrailingCount(x, form, N) => x = m
          /\ Members(cls, C7_Generated[Other(d)]) = {}
          /\ pc[Other(d)] = "done")
           => (result[d] = "true" /\ result[Other(d)] = "false")

C7_StepLeavesOtherDetector ==
  \A d \in Detectors :
    (pc'[d] # pc[d] \/ probed'[d] # probed[d]) =>
      /\ args'[Other(d)] = args[Other(d)]
      /\ pc'[Other(d)] = pc[Other(d)]
      /\ level'[Other(d)] = level[Other(d)]
      /\ probed'[Other(d)] = probed[Other(d)]
      /\ result'[Other(d)] = result[Other(d)]

C7_DetectorsDoNotInterfere ==
  []C7_ValuesAreIndependent /\ [][C7_StepLeavesOtherDetector]_vars

C7_Witness ==
  /\ pc["HasF"] = "done" /\ pc["HasG"] = "done"
  /\ Members(cls, "f") # {} /\ Members(cls, "g") = {}
  /\ result["HasF"] = "true" /\ result["HasG"] = "false"

(***************************************************************************)
(* C8: the search probes the arities in strictly increasing order from 0   *)
(* and stops at the first arity that matches: no arity above a matching    *)
(* one is probed.  With the overloads f(int) and f(int, int) it succeeds   *)
(* at arity 1 and arity 2 is never probed.                                 *)
(***************************************************************************)
C8_StopsAtFirstMatch ==
  \A d \in Detectors :
    /\ \A i \in 1..Len(probed[d]) :
         /\ probed[d][i] = i - 1
         /\ i < Len(probed[d])
              => WithNAdditionalArgs(cls, form, MethodOf(d), probed[d][i]) # "true"
    /\ (pc[d] = "done" /\ result[d] = "true") =>
         /\ probed[d] # <<>>
         /\ WithNAdditionalArgs(cls, form, MethodOf(d),
                                probed[d][Len(probed[d])]) = "true"
    /\ (/\ pc[d] = "done" /\ d = "HasF" /\ form = PlainForm
        /\ cls = {F("void", FALSE, <<"int">>), F("void", FALSE, <<"int", "int">>)})
         => (result[d] = "true" /\ probed[d] = <<0, 1>>)

C8_Witness ==
  /\ pc["HasF"] = "done"
  /\ form = PlainForm
  /\ cls = {F("void", FALSE, <<"int">>), F("void", FALSE, <<"int", "int">>)}
  /\ result["HasF"] = "true"
  /\ probed["HasF"] = <<0, 1>>

(***************************************************************************)
(* C9: the search always terminates and never exceeds the bound: started   *)
(* at N = 0 it reaches a result after at most 8 fixed-arity probes, every  *)
(* probed arity is in 0..7, and the level N = 8 is never evaluated.        *)
(***************************************************************************)
C9_WithinBound ==
  \A d \in Detectors :
    /\ level[d] \in 0..MaxMFDAdditionalArgsCount
    /\ Len(probed[d]) <= MaxMFDAdditionalArgsCount + 1
    /\ \A i \in 1..Len(probed[d]) : probed[d][i] \in 0..MaxMFDAdditionalArgsCount

C9_SearchTerminatesWithinBound ==
  /\ []C9_WithinBound
  /\ \A d \in Detectors :
       (pc[d] = "search") ~> (pc[d] = "done" /\ result[d] \in {"true", "false"})

C9_Witness ==
  \E d \in Detectors :
    /\ pc[d] = "done"
    /\ Len(probed[d]) = MaxMFDAdditionalArgsCount + 1
    /\ probed[d][Len(probed[d])] = MaxMFDAdditionalArgsCount

(***************************************************************************)
(* C10: the HAS_MEM_FUNC detector queried with the exact signature         *)
(* Shape<C, T1..TN> reports the same boolean as the fixed-arity check      *)
(* WithNAdditionalArgs<N> whenever the class has no method of that name    *)
(* with N trailing arguments or has one of exactly that signature, also    *)
(* when it has several overloads of that name with N trailing arguments.   *)
(***************************************************************************)
\* Both detectors were asked, the fixed-signature one about an instance of
\* the form with as many trailing types as the fixed-arity check probes.
C10_SamePoint ==
  /\ mem.queried /\ arity.queried
  /\ Len(mem.sig.params) = Len(form.prefix) + arity.n
  /\ mem.sig = MethodForm(form, SubSeq(mem.sig.params, Len(form.prefix) + 1,
                                       Len(mem.sig.params)))

\* The overloads of f with N trailing arguments.
C10_AtArity == {m \in Members(cls, "f") : HasTrailingCount(m, form, arity.n)}

C10_QueriedTypes ==
  SubSeq(mem.sig.params, Len(form.prefix) + 1, Len(mem.sig.params))

====
